---------------------------- MODULE Spec2Model ----------------------------
(***************************************************************************)
(* A model of the culinary companion: the quantity parser, the ingredient  *)
(* aggregator, the recipe/transcript request handlers over the database,   *)
(* and the transcription relay.                                            *)
(*                                                                         *)
(* Python values are tagged records.  A Python str is a sequence of        *)
(* one-character strings, so that strip(), lower(), split() and float()    *)
(* are computed character by character.  A Python float is an exact        *)
(* rational n/d in lowest terms (d > 0); binary rounding is not modelled.  *)
(***************************************************************************)
EXTENDS Integers, Sequences, FiniteSets, TLC

VARIABLES
    q_in,           \* parse_quantity: the argument of the call
    qresult,        \* parse_quantity: what the call returned
    qpc,            \* "call" before parse_quantity ran, "ret" after
    agg_in,         \* the aggregation: the recipes the query returned
    agg_out,        \* the aggregation: what the handler produced
    agg_pc,         \* "call" before the aggregation ran, "ret" after
    raw_in,         \* parse_llm_json_output: the argument of the call
    parsed,         \* parse_llm_json_output: what the call returned
    parse_pc,       \* "call" before parse_llm_json_output ran, "ret" after
    transcripts,    \* table transcripts: id -> [full_text, status, recipe_id]
    recipes,        \* table recipes: id -> [recipe_name, provenance, items, chef_notes]
    sessions,       \* generate-recipe requests waiting for the structuring service
    resp,           \* the response of the request that finished last
    handler,        \* websocket_streaming_endpoint: where the handler is
    pending,        \* the exception the handler's finally clause will re-raise
    caught,         \* the except clause of the handler caught and printed an error
    generator,      \* audio_request_generator: where the generator is
    peer,           \* the client's end of the socket: "open" or "gone"
    client_state,   \* websocket.client_state
    closed,         \* websocket.close() was awaited
    received,       \* the messages ws.receive() returned, in order
    to_service,     \* the requests the generator yielded, in order
    responses,      \* the responses the loop took from the service, in order
    to_client       \* the messages send_json sent, in order

qvars == <<q_in, qresult, qpc>>
aggvars == <<agg_in, agg_out, agg_pc>>
parsevars == <<raw_in, parsed, parse_pc>>
dbvars == <<transcripts, recipes, sessions, resp>>
relayvars == <<handler, pending, caught, generator, peer, client_state, closed, received,
               to_service, responses, to_client>>

---------------------------------------------------------------------------
(* Bounds                                                                  *)

\* longest quantity string enumerated for parse_quantity
MaxLen == 3

\* most line items, over all recipes, in an input of the aggregation
MaxLineItems == 3

\* most recipes in an input of the aggregation
MaxAggRecipes == 2

\* most rows of table recipes at a time
MaxRecipes == 2

\* most rows of table transcripts
MaxTranscripts == 2

\* most tokens of a raw text enumerated for parse_llm_json_output
MaxRawLen == 4

\* most generate-recipe requests in flight at a time
MaxSessions == 2

\* most messages the relay receives from the client in a session
MaxMessages == 3

\* most responses the relay takes from the speech service in a session
MaxResponses == 3

---------------------------------------------------------------------------
(* Python values                                                           *)

PyNone == [k |-> "None"]
Raise(e) == [k |-> "raise", e |-> e]
IsRaise(r) == r.k = "raise"

RECURSIVE Gcd(_, _)
Gcd(a, b) == IF b = 0 THEN a ELSE Gcd(b, a % b)

Abs(i) == IF i < 0 THEN -i ELSE i

\* the float n/d, in lowest terms with a positive denominator
Float(n, d) ==
    LET g == Gcd(Abs(n), Abs(d))
        s == IF d < 0 THEN -1 ELSE 1
    IN  [k |-> "float", n |-> (s * n) \div g, d |-> (s * d) \div g]

FloatAdd(a, b) == Float(a.n * b.d + b.n * a.d, a.d * b.d)

---------------------------------------------------------------------------
(* Python str methods, on sequences of characters                          *)

IsSpace(c) == c \in {" ", "\t", "\n"}
IsDigit(c) == c \in {"0", "1", "2", "3", "4", "5", "6", "7", "8", "9"}

DigitVal(c) ==
    CASE c = "0" -> 0 [] c = "1" -> 1 [] c = "2" -> 2 [] c = "3" -> 3
      [] c = "4" -> 4 [] c = "5" -> 5 [] c = "6" -> 6 [] c = "7" -> 7
      [] c = "8" -> 8 [] c = "9" -> 9

RECURSIVE lstrip(_)
lstrip(s) == IF s # <<>> /\ IsSpace(Head(s)) THEN lstrip(Tail(s)) ELSE s

RECURSIVE rstrip(_)
rstrip(s) ==
    IF s # <<>> /\ IsSpace(s[Len(s)]) THEN rstrip(SubSeq(s, 1, Len(s) - 1)) ELSE s

\* str.strip()
strip(s) == rstrip(lstrip(s))

LowerChar(c) ==
    CASE c = "A" -> "a" [] c = "B" -> "b" [] c = "C" -> "c" [] c = "E" -> "e"
      [] c = "F" -> "f" [] c = "G" -> "g" [] c = "P" -> "p" [] c = "S" -> "s"
      [] c = "U" -> "u"
      [] OTHER -> c

\* str.lower()
lower(s) == [i \in 1..Len(s) |-> LowerChar(s[i])]

\* sep in s
Contains(s, sep) == \E i \in 1..Len(s) : s[i] = sep

\* index of the first sep in s, 0 when there is none
RECURSIVE Find(_, _, _)
Find(s, sep, i) ==
    IF i > Len(s) THEN 0 ELSE IF s[i] = sep THEN i ELSE Find(s, sep, i + 1)

\* str.split(sep): the list of the pieces between the separators
RECURSIVE split(_, _)
split(s, sep) ==
    LET i == Find(s, sep, 1)
    IN  IF i = 0 THEN <<s>>
        ELSE <<SubSeq(s, 1, i - 1)>> \o split(SubSeq(s, i + 1, Len(s)), sep)

AllDigits(s) == \A i \in 1..Len(s) : IsDigit(s[i])

RECURSIVE DigitsVal(_)
DigitsVal(s) ==
    IF s = <<>> THEN 0 ELSE 10 * DigitsVal(SubSeq(s, 1, Len(s) - 1)) + DigitVal(s[Len(s)])

RECURSIVE Pow10(_)
Pow10(n) == IF n = 0 THEN 1 ELSE 10 * Pow10(n - 1)

\* the value of the decimal literal with integer digits ip and fraction
\* digits fp; a ValueError when either holds a non-digit or both are empty
DecimalValue(ip, fp) ==
    IF AllDigits(ip) /\ AllDigits(fp) /\ Len(ip) + Len(fp) > 0
    THEN Float(DigitsVal(ip) * Pow10(Len(fp)) + DigitsVal(fp), Pow10(Len(fp)))
    ELSE Raise("ValueError")

\* the literal s cut at its first point, at index dot (0: no point)
DecimalAt(s, dot) ==
    IF dot = 0 THEN DecimalValue(s, <<>>)
    ELSE DecimalValue(SubSeq(s, 1, dot - 1), SubSeq(s, dot + 1, Len(s)))

\* float(s) of an unsigned, stripped decimal literal: digits, digits., .digits
\* or digits.digits
UnsignedFloat(s) == DecimalAt(s, Find(s, ".", 1))

\* the float u with the sign character applied
WithSign(sign, u) ==
    IF IsRaise(u) THEN u ELSE IF sign = "-" THEN Float(-u.n, u.d) ELSE u

\* float(t) of a stripped str: one sign is allowed
SignedFloat(t) ==
    IF t # <<>> /\ Head(t) \in {"+", "-"}
    THEN WithSign(Head(t), UnsignedFloat(Tail(t)))
    ELSE UnsignedFloat(t)

\* the builtin float(s) of a str: surrounding whitespace is ignored, one sign
\* is allowed, and anything that is not a decimal literal is a ValueError
float_(s) == SignedFloat(strip(s))

\* a / b on floats
truediv(a, b) ==
    IF b.n = 0 THEN Raise("ZeroDivisionError") ELSE Float(a.n * b.d, a.d * b.n)

---------------------------------------------------------------------------
(* parse_quantity                                                          *)

\* float(num) / float(den), num evaluated first
DivideFloats(num, den) ==
    IF IsRaise(num) THEN num ELSE IF IsRaise(den) THEN den ELSE truediv(num, den)

\* num, den = parts: a ValueError unless there are exactly two parts
UnpackAndDivide(parts) ==
    IF Len(parts) # 2 THEN Raise("ValueError")
    ELSE DivideFloats(float_(parts[1]), float_(parts[2]))

\* num, den = quantity_str.split("/"); return float(num) / float(den)
SplitAndDivide(quantity_str) == UnpackAndDivide(split(quantity_str, "/"))

\* except (ValueError, ZeroDivisionError): return None
CatchFraction(r) ==
    IF IsRaise(r) /\ r.e \in {"ValueError", "ZeroDivisionError"} THEN PyNone ELSE r

\* the except clause with ZeroDivisionError left out
CatchFraction_ValueErrorOnly(r) ==
    IF IsRaise(r) /\ r.e \in {"ValueError"} THEN PyNone ELSE r

\* the fraction branch with ZeroDivisionError left out of the except clause
parse_fraction_uncaught(quantity_str) ==
    CatchFraction_ValueErrorOnly(SplitAndDivide(quantity_str))

\* the inner try/except of parse_quantity
parse_fraction(quantity_str) == CatchFraction(SplitAndDivide(quantity_str))

\* the outer try/except, r being what float(quantity_str) gave
CatchFloat(quantity_str, r) ==
    IF ~IsRaise(r) THEN r
    ELSE IF r.e \in {"ValueError", "TypeError"}
    THEN IF Contains(quantity_str, "/") THEN parse_fraction(quantity_str) ELSE PyNone
    ELSE r

parse_quantity(quantity_str) ==
    IF quantity_str = <<>> THEN PyNone
    ELSE CatchFloat(quantity_str, float_(quantity_str))

---------------------------------------------------------------------------
(* The calls of parse_quantity                                             *)

QtyAlphabet == {"0", "1", "2", "5", ".", "/", "-", " ", "a"}

RECURSIVE StringsUpTo(_, _)
StringsUpTo(A, n) ==
    IF n = 0 THEN {<<>>}
    ELSE LET shorter == StringsUpTo(A, n - 1)
         IN  shorter \cup {Append(s, c) : s \in shorter, c \in A}

QtyExamples == {<<"2">>, <<"1", "/", "2">>, <<"1", ".", "5">>, <<"a", "b", "c">>,
                <<"1", "/", "0">>, <<>>}

QtyInputs == StringsUpTo(QtyAlphabet, MaxLen) \cup QtyExamples

QtyInit ==
    /\ q_in \in QtyInputs
    /\ qresult = PyNone
    /\ qpc = "call"

QtyCall ==
    /\ qpc = "call"
    /\ qresult' = parse_quantity(q_in)
    /\ qpc' = "ret"
    /\ UNCHANGED q_in

\* no call of parse_quantity is modelled
QtyIdle == q_in = <<>> /\ qresult = PyNone /\ qpc = "idle"

---------------------------------------------------------------------------
(* JSON values, as json.loads builds them and the JSON columns store them  *)

JNull == [t |-> "null"]
JInt(i) == [t |-> "int", i |-> i]
JFloat(n, d) == [t |-> "float", n |-> n, d |-> d]
JStr(s) == [t |-> "str", s |-> s]
JList(l) == [t |-> "list", l |-> l]
JDict(o) == [t |-> "dict", o |-> o]

\* an exception in place of a value
JRaise(e) == [t |-> "raise", e |-> e]
IsJRaise(v) == v.t = "raise"

\* bool(v): None, 0, 0.0, "", [] and {} are false
Truthy(v) ==
    CASE v.t = "null" -> FALSE
      [] v.t = "int" -> v.i # 0
      [] v.t = "float" -> v.n # 0
      [] v.t = "str" -> v.s # <<>>
      [] v.t = "list" -> v.l # <<>>
      [] v.t = "dict" -> DOMAIN v.o # {}

\* a or b
Or(a, b) == IF Truthy(a) THEN a ELSE b

\* dict.get(key): None when the key is absent
Get(dict, key) == IF key \in DOMAIN dict.o THEN dict.o[key] ELSE JNull

RECURSIVE IntStr(_)
IntStr(i) ==
    LET digit == <<"0", "1", "2", "3", "4", "5", "6", "7", "8", "9">>
    IN  IF i < 0 THEN <<"-">> \o IntStr(-i)
        ELSE IF i < 10 THEN <<digit[i + 1]>>
        ELSE IntStr(i \div 10) \o <<digit[(i % 10) + 1]>>

\* str(v) of a scalar: a str is itself, an int its digits, a float n/d (d
\* dividing 10) its integer part, a point and one digit, None is "None"
str_(v) ==
    CASE v.t = "str" -> v.s
      [] v.t = "int" -> IntStr(v.i)
      [] v.t = "float" ->
            (IF v.n < 0 THEN <<"-">> ELSE <<>>)
            \o IntStr(Abs(v.n) \div v.d) \o <<".">>
            \o IntStr(((Abs(v.n) % v.d) * 10) \div v.d)
      [] v.t = "null" -> <<"N", "o", "n", "e">>

\* what "for x in v" iterates over: the elements of a list, the characters
\* of a str, the keys of a dict (each a str; the loop below fails on any str,
\* whatever its characters); a TypeError for the values that are not iterable
Iterate(v) ==
    CASE v.t = "list" -> v
      [] v.t = "str" -> JList([i \in 1..Len(v.s) |-> JStr(<<v.s[i]>>)])
      [] v.t = "dict" -> JList([i \in 1..Cardinality(DOMAIN v.o) |-> JStr(<<"k">>)])
      [] OTHER -> JRaise("TypeError")

---------------------------------------------------------------------------
(* serve_ingredients_page: the aggregation of the line items               *)

S_count == <<"c", "o", "u", "n", "t">>

\* the defaultdict of defaultdicts: m maps a name to a map from unit to total
Acc(m) == [t |-> "acc", m |-> m]

\* the update with = in place of +=
Accumulate_Assign(acc, name, unit, q) ==
    LET units == IF name \in DOMAIN acc.m THEN acc.m[name] ELSE <<>>
        new == [u \in DOMAIN units \cup {unit} |-> IF u = unit THEN q ELSE units[u]]
    IN  Acc([n \in DOMAIN acc.m \cup {name} |-> IF n = name THEN new ELSE acc.m[n]])

\* aggregated_ingredients[name][unit] += q
Accumulate(acc, name, unit, q) ==
    LET units == IF name \in DOMAIN acc.m THEN acc.m[name] ELSE <<>>
        old == IF unit \in DOMAIN units THEN units[unit] ELSE Float(0, 1)
        new == [u \in DOMAIN units \cup {unit} |->
                    IF u = unit THEN FloatAdd(old, q) ELSE units[u]]
    IN  Acc([n \in DOMAIN acc.m \cup {name} |-> IF n = name THEN new ELSE acc.m[n]])

\* lines 350-353: the parsed quantity added under the normalised name
AddQuantity(acc, name, unit, numeric_quantity) ==
    IF IsRaise(numeric_quantity) THEN JRaise(numeric_quantity.e)
    ELSE IF numeric_quantity # PyNone
    THEN IF name.t # "str" THEN JRaise("AttributeError")
         ELSE Accumulate(acc, lower(strip(name.s)), unit, numeric_quantity)
    ELSE acc

\* lines 344-353, u being item.get('unit') or 'count'
AggregateFields(acc, name, quantity, u) ==
    IF u.t # "str" THEN JRaise("AttributeError")
    ELSE IF Truthy(name) /\ Truthy(quantity)
    THEN AddQuantity(acc, name, lower(strip(u.s)), parse_quantity(str_(quantity)))
    ELSE acc

\* the body of the inner loop for one item: acc afterwards, or the exception
AggregateItem(acc, item) ==
    IF item.t # "dict" THEN JRaise("AttributeError")
    ELSE AggregateFields(acc, Get(item, "itemName"), Get(item, "quantity"),
                         Or(Get(item, "unit"), JStr(S_count)))

RECURSIVE AggregateItems(_, _, _)

\* the loop goes on with the next item unless the last one raised
NextItem(a, items, i) == IF IsJRaise(a) THEN a ELSE AggregateItems(a, items, i)

\* for item in recipe.items, from the i-th item on
AggregateItems(acc, items, i) ==
    IF i > Len(items) THEN acc
    ELSE NextItem(AggregateItem(acc, items[i]), items, i + 1)

\* the inner loop over what recipe.items iterates as
AggregateIterable(acc, items) ==
    IF IsJRaise(items) THEN items ELSE AggregateItems(acc, items.l, 1)

RECURSIVE AggregateRecipes(_, _, _)

\* the loop goes on with the next recipe unless the last one raised
NextRecipe(a, all_recipes, i) ==
    IF IsJRaise(a) THEN a ELSE AggregateRecipes(a, all_recipes, i)

\* for recipe in all_recipes, from the i-th recipe on
AggregateRecipes(acc, all_recipes, i) ==
    IF i > Len(all_recipes) THEN acc
    ELSE NextRecipe(AggregateIterable(acc, Iterate(all_recipes[i].items)),
                    all_recipes, i + 1)

\* the characters in code point order
CharOrder ==
    <<"\t", "\n", " ", "-", ".", "/", "0", "1", "2", "3", "4", "5", "6", "7",
      "8", "9", "A", "B", "C", "E", "F", "G", "N", "P", "S", "U",
      "a", "b", "c", "d", "e", "f", "g", "h", "i", "j", "k", "l", "m", "n", "o",
      "p", "q", "r", "s", "t", "u", "v", "w", "x", "y", "z">>

Ord(c) == CHOOSE i \in 1..Len(CharOrder) : CharOrder[i] = c

\* a < b on str
RECURSIVE StrLess(_, _)
StrLess(a, b) ==
    IF b = <<>> THEN FALSE
    ELSE IF a = <<>> THEN TRUE
    ELSE IF Head(a) = Head(b) THEN StrLess(Tail(a), Tail(b))
    ELSE Ord(Head(a)) < Ord(Head(b))

\* sorted(aggregated_ingredients.items()): the (name, totals) pairs, by name
RECURSIVE sorted_items(_)
sorted_items(acc) ==
    IF DOMAIN acc = {} THEN <<>>
    ELSE LET least == CHOOSE n \in DOMAIN acc : \A m \in DOMAIN acc \ {n} : StrLess(n, m)
         IN  <<<<least, acc[least]>>>>
             \o sorted_items([n \in DOMAIN acc \ {least} |-> acc[n]])

\* the response: the sorted aggregate handed to the template (200), or the
\* exception that ends the request (500)
IngredientsResponse(a) ==
    IF IsJRaise(a) THEN [code |-> 500, error |-> a.e, ingredients |-> <<>>]
    ELSE [code |-> 200, error |-> "html", ingredients |-> sorted_items(a.m)]

\* the handler from the loop on
serve_ingredients_page(all_recipes) ==
    IngredientsResponse(AggregateRecipes(Acc(<<>>), all_recipes, 1))

---------------------------------------------------------------------------
(* The calls of the aggregation, on recipes whose items are lists of       *)
(* objects with a str (or no) name and unit and a str, number or no        *)
(* quantity                                                                *)

S_Flour == <<"F", "l", "o", "u", "r">>
S_flour == <<"f", "l", "o", "u", "r">>
S_egg == <<"e", "g", "g">>
S_Sugar == <<"S", "u", "g", "a", "r">>
S_sugar == <<"s", "u", "g", "a", "r">>
S_cup == <<"c", "u", "p">>

ItemPool ==
    { JDict([itemName |-> JStr(S_Flour), quantity |-> JStr(<<"1">>), unit |-> JStr(S_cup)]),
      JDict([itemName |-> JStr(S_flour), quantity |-> JStr(<<"2">>), unit |-> JStr(S_cup)]),
      JDict([itemName |-> JStr(<<" ", "E", "g", "g", " ">>),
             quantity |-> JStr(<<"1", "/", "2">>)]),
      JDict([itemName |-> JStr(S_egg), quantity |-> JInt(2), unit |-> JStr(<<>>)]),
      JDict([itemName |-> JStr(S_flour), quantity |-> JStr(<<"a", "b", "c">>),
             unit |-> JStr(<<" ", "C", "u", "p", " ">>)]),
      JDict([quantity |-> JStr(<<"1">>), unit |-> JStr(S_cup)]),
      JDict([itemName |-> JStr(S_egg), quantity |-> JInt(0), unit |-> JStr(S_cup)]),
      JDict([itemName |-> JStr(S_Sugar), quantity |-> JFloat(3, 2), unit |-> JStr(<<" ">>)]),
      JDict([itemName |-> JStr(<<>>), unit |-> JNull]) }

\* the item lists of exactly n items
RECURSIVE ItemListsOf(_)
ItemListsOf(n) ==
    IF n = 0 THEN {<<>>}
    ELSE {Append(l, it) : l \in ItemListsOf(n - 1), it \in ItemPool}

\* the sequences of at most r recipes holding at most n line items in all
RECURSIVE RecipeSeqs(_, _)
RecipeSeqs(r, n) ==
    IF r = 0 THEN {<<>>}
    ELSE {<<>>} \cup
         UNION { { <<[items |-> JList(l)]>> \o rest : l \in ItemListsOf(k),
                                                     rest \in RecipeSeqs(r - 1, n - k) }
                 : k \in 0..n }

AggInit ==
    /\ agg_in \in RecipeSeqs(MaxAggRecipes, MaxLineItems)
    /\ agg_out = [code |-> 0, error |-> "", ingredients |-> <<>>]
    /\ agg_pc = "call"

AggCall ==
    /\ agg_pc = "call"
    /\ agg_out' = serve_ingredients_page(agg_in)
    /\ agg_pc' = "ret"
    /\ UNCHANGED agg_in

\* no call of the aggregation is modelled
AggIdle ==
    /\ agg_in = <<>>
    /\ agg_out = [code |-> 0, error |-> "", ingredients |-> <<>>]
    /\ agg_pc = "idle"

---------------------------------------------------------------------------
(* parse_llm_json_output.  A raw text is a sequence of tokens: a code      *)
(* fence, the tag json, whitespace, the text of one JSON value, or text    *)
(* that is no JSON (and holds no fence and no brace).  One more token is   *)
(* a JSON text the decoder gives up on: json.loads raises RecursionError   *)
(* on it, which is no JSONDecodeError.                                     *)

Fence == [k |-> "fence", v |-> JNull]
Tag == [k |-> "tag", v |-> JNull]
Ws == [k |-> "ws", v |-> JNull]
Junk == [k |-> "junk", v |-> JNull]
\* arrays nested deeper than the interpreter's recursion limit
Deep == [k |-> "deep", v |-> JNull]
Doc(v) == [k |-> "value", v |-> v]

\* the token is the text of an object: it starts with { and ends with }
IsObjectText(tok) == tok.k = "value" /\ tok.v.t = "dict"

\* the first index from i on that holds no whitespace (Len + 1: none)
RECURSIVE SkipWs(_, _)
SkipWs(raw, i) ==
    IF i <= Len(raw) /\ raw[i].k = "ws" THEN SkipWs(raw, i + 1) ELSE i

\* \s*``` matches right after index q
ClosesAfter(raw, q) ==
    LET r == SkipWs(raw, q + 1) IN r <= Len(raw) /\ raw[r].k = "fence"

\* where group 2 starts when the pattern matches from the fence at i: after
\* the optional tag and whitespace; 0 when no { follows
GroupStart(raw, i) ==
    LET j == IF i + 1 <= Len(raw) /\ raw[i + 1].k = "tag" THEN i + 2 ELSE i + 1
        p == SkipWs(raw, j)
    IN  IF raw[i].k = "fence" /\ p <= Len(raw) /\ IsObjectText(raw[p]) THEN p ELSE 0

\* the ends group 2 may have, starting at p: a } followed by \s*```
GroupEnds(raw, p) ==
    {q \in p..Len(raw) : IsObjectText(raw[q]) /\ ClosesAfter(raw, q)}

\* the pattern matches from index i
MatchesAt(raw, i) == GroupStart(raw, i) # 0 /\ GroupEnds(raw, GroupStart(raw, i)) # {}

SetMax(S) == CHOOSE x \in S : \A y \in S : y <= x
SetMin(S) == CHOOSE x \in S : \A y \in S : x <= y

\* group 2 of the leftmost match, .* taking as much as it can
GroupTwo(raw, i) ==
    SubSeq(raw, GroupStart(raw, i), SetMax(GroupEnds(raw, GroupStart(raw, i))))

\* match.group(2) if match else raw_string
json_string(raw) ==
    LET starts == {i \in 1..Len(raw) : MatchesAt(raw, i)}
    IN  IF starts = {} THEN raw ELSE GroupTwo(raw, SetMin(starts))

\* json.loads: the value of the one JSON text, whitespace around it allowed;
\* a RecursionError when the decoder meets the nesting it cannot follow; a
\* JSONDecodeError for anything else
json_loads(text) ==
    LET a == SkipWs(text, 1)
    IN  IF a <= Len(text) /\ text[a].k = "value" /\ SkipWs(text, a + 1) = Len(text) + 1
        THEN text[a].v
        ELSE IF a <= Len(text) /\ text[a].k = "deep"
        THEN JRaise("RecursionError")
        ELSE JRaise("JSONDecodeError")

\* except json.JSONDecodeError: return None
CatchDecode(v) == IF IsJRaise(v) /\ v.e = "JSONDecodeError" THEN JNull ELSE v

parse_llm_json_output(raw_string) ==
    IF raw_string = <<>> THEN JNull
    ELSE CatchDecode(json_loads(json_string(raw_string)))

---------------------------------------------------------------------------
(* The database and the request handlers                                   *)

\* a NULL recipe_id (ids start at 1)
NULL == 0

\* the texts a transcript is created with, and those resubmitted for generation
DictatedTexts == {"dictated"}
Texts == {"corrected"}

S_Untitled == <<"U", "n", "t", "i", "t", "l", "e", "d", " ", "R", "e", "c", "i", "p", "e">>
S_Soup == <<"S", "o", "u", "p">>

Transcript(full_text, status, recipe_id) ==
    [full_text |-> full_text, status |-> status, recipe_id |-> recipe_id]

Recipe(recipe_name, provenance, items, chef_notes) ==
    [recipe_name |-> recipe_name, provenance |-> provenance,
     items |-> items, chef_notes |-> chef_notes]

\* the id an INSERT gets: one more than the largest id of the table
NextId(table) == IF DOMAIN table = {} THEN 1 ELSE SetMax(DOMAIN table) + 1

Insert(table, id, row) ==
    [i \in DOMAIN table \cup {id} |-> IF i = id THEN row ELSE table[i]]

Remove(table, id) == [i \in DOMAIN table \ {id} |-> table[i]]

\* the rows of the table in id order, as a query without ORDER BY returns them
RECURSIVE Rows(_)
Rows(table) ==
    IF DOMAIN table = {} THEN <<>>
    ELSE <<table[SetMin(DOMAIN table)]>> \o Rows(Remove(table, SetMin(DOMAIN table)))

IdleSession == [state |-> "idle", tid |-> 0, text |-> ""]

\* a response: the handler, the status code, and the body: "html" for a
\* rendered template, the detail of an error, "" for an empty body
Response(op, code, body) == [op |-> op, code |-> code, body |-> body]

\* the objects the structuring service may return, among them ones that do
\* not follow the instruction it was given
Item_flour == JDict([itemName |-> JStr(S_Flour), quantity |-> JStr(<<"1">>), unit |-> JStr(S_cup)])

LLMValues ==
    { JDict([recipe_name |-> JStr(S_Soup), items |-> JList(<<Item_flour>>)]),
      JDict([items |-> JList(<<JDict([quantity |-> JStr(<<"1">>), unit |-> JStr(S_cup)])>>)]),
      JDict([recipe_name |-> JStr(S_Soup), items |-> JStr(S_flour)]),
      JDict([recipe_name |-> JStr(S_Soup), provenance |-> JStr(<<>>),
             items |-> JList(<<Item_flour>>)]),
      JDict(<<>>),
      JList(<<Item_flour>>) }

\* what call_llm_for_json returns when the call did not fail: the text
LLMReplies ==
    {<<Doc(v)>> : v \in LLMValues}
    \cup { <<Fence, Tag, Ws, Doc(JDict([recipe_name |-> JStr(S_Soup),
                                        items |-> JList(<<Item_flour>>)])), Ws, Fence>>,
           <<Junk>>, <<Deep>>, <<>> }

\* the submitted forms: recipe_name, provenance, the three item lists (zip
\* stops at the shortest), chef_note (None when the field is absent)
Forms ==
    { [recipe_name |-> S_Soup, provenance |-> <<>>, item_quantity |-> << <<"1">> >>,
       item_unit |-> <<S_cup>>, item_name |-> <<S_Flour>>, chef_note |-> JNull],
      [recipe_name |-> S_Soup, provenance |-> <<>>,
       item_quantity |-> << <<"2">>, <<"a", "b", "c">>, <<"1">> >>,
       item_unit |-> <<S_cup, <<>> >>, item_name |-> << <<>>, S_egg, S_flour >>,
       chef_note |-> JList(<<JStr(S_sugar)>>)] }

\* [{"quantity": qty, "unit": unit, "itemName": name} for ... in zip(...) if name]
RECURSIVE ZipItems(_, _, _, _)
ZipItems(item_quantity, item_unit, item_name, i) ==
    IF i > Len(item_quantity) \/ i > Len(item_unit) \/ i > Len(item_name) THEN <<>>
    ELSE (IF item_name[i] # <<>>
          THEN <<JDict([quantity |-> JStr(item_quantity[i]), unit |-> JStr(item_unit[i]),
                        itemName |-> JStr(item_name[i])])>>
          ELSE <<>>)
         \o ZipItems(item_quantity, item_unit, item_name, i + 1)

\* the Recipe the two form handlers build from the form
RecipeFromForm(form) ==
    Recipe(JStr(form.recipe_name), JStr(form.provenance),
           JList(ZipItems(form.item_quantity, form.item_unit, form.item_name, 1)),
           Or(form.chef_note, JList(<<>>)))

\* the Recipe generate-recipe builds from the parsed object
RecipeFromData(recipe_data) ==
    Recipe(Or(Get(recipe_data, "recipe_name"), JStr(S_Untitled)),
           Or(Get(recipe_data, "provenance"), JNull),
           Or(Get(recipe_data, "items"), JList(<<>>)),
           Or(Get(recipe_data, "chef_notes"), JList(<<>>)))

DbInit ==
    /\ transcripts = <<>>
    /\ recipes = <<>>
    /\ sessions = [s \in 1..MaxSessions |-> IdleSession]
    /\ resp = Response("none", 0, "")

\* POST /transcripts
create_transcript_and_return_editor(full_text) ==
    /\ Cardinality(DOMAIN transcripts) < MaxTranscripts
    /\ transcripts' = Insert(transcripts, NextId(transcripts),
                             Transcript(full_text, "pending", NULL))
    /\ resp' = Response("create_transcript", 200, "html")
    /\ UNCHANGED <<recipes, sessions>>

\* POST /transcripts/{id}/generate-recipe, to the call of the structuring
\* service: 404 for an unknown id; else the text is set on the session's
\* Transcript object and the request waits for the service
GenerateBegin(s, transcript_id, transcript_text) ==
    /\ sessions[s].state = "idle"
    /\ IF transcript_id \notin DOMAIN transcripts
       THEN /\ resp' = Response("generate", 404, "Transcript not found")
            /\ UNCHANGED <<transcripts, recipes, sessions>>
       ELSE /\ sessions' = [sessions EXCEPT ![s] =
                               [state |-> "llm", tid |-> transcript_id,
                                text |-> transcript_text]]
            /\ UNCHANGED <<transcripts, recipes, resp>>

\* the tables with the text set on the session's Transcript written all the same
RolledBack_TextWritten(session) ==
    <<[transcripts EXCEPT ![session.tid].full_text = session.text], recipes>>

\* the tables after a request that ends in an exception: its session is
\* closed without a commit, so nothing it set is written
RolledBack(session) == <<transcripts, recipes>>

\* the commit with the assignment of the status left out
Committed_StatusKept(session, new_recipe) ==
    << [transcripts EXCEPT ![session.tid] =
            Transcript(session.text, transcripts[session.tid].status, NextId(recipes))],
       Insert(recipes, NextId(recipes), new_recipe) >>

\* the tables after db.commit() of generate-recipe: the INSERT of the Recipe
\* and the UPDATE of the Transcript's full_text, recipe_id and status
Committed(session, new_recipe) ==
    << [transcripts EXCEPT ![session.tid] =
            Transcript(session.text, "processed", NextId(recipes))],
       Insert(recipes, NextId(recipes), new_recipe) >>

\* the request fails: an HTTPException, or the exception that escapes (500)
GenerateFail(s, detail) ==
    /\ resp' = Response("generate", 500, detail)
    /\ transcripts' = RolledBack(sessions[s])[1]
    /\ recipes' = RolledBack(sessions[s])[2]
    /\ sessions' = [sessions EXCEPT ![s] = IdleSession]

\* lines 204-225, recipe_data being what parse_llm_json_output returned
GenerateFromData(s, recipe_data) ==
    IF IsJRaise(recipe_data)
    THEN GenerateFail(s, "Internal Server Error")
    ELSE IF ~Truthy(recipe_data)
    THEN GenerateFail(s, "AI returned an invalid recipe structure.")
    ELSE IF recipe_data.t # "dict"
    THEN GenerateFail(s, "Internal Server Error")
    ELSE /\ Cardinality(DOMAIN recipes) < MaxRecipes
         /\ transcripts' = Committed(sessions[s], RecipeFromData(recipe_data))[1]
         /\ recipes' = Committed(sessions[s], RecipeFromData(recipe_data))[2]
         /\ resp' = Response("generate", 200, "html")
         /\ sessions' = [sessions EXCEPT ![s] = IdleSession]

\* generate-recipe from the return of call_llm_for_json on: failed is the
\* call raising (None is returned), raw_ai_output the text otherwise
GenerateFinish(s, failed, raw_ai_output) ==
    /\ sessions[s].state = "llm"
    /\ IF failed \/ raw_ai_output = <<>>
       THEN GenerateFail(s, "AI service failed to respond.")
       ELSE GenerateFromData(s, parse_llm_json_output(raw_ai_output))

\* POST /recipes
create_recipe_from_form(form) ==
    /\ Cardinality(DOMAIN recipes) < MaxRecipes
    /\ recipes' = Insert(recipes, NextId(recipes), RecipeFromForm(form))
    /\ resp' = Response("create_recipe", 200, "html")
    /\ UNCHANGED <<transcripts, sessions>>

\* PUT|POST /recipes/{id}
update_recipe_and_return_cookbook(recipe_id, form) ==
    /\ IF recipe_id \notin DOMAIN recipes
       THEN /\ resp' = Response("update", 404, "Recipe not found")
            /\ UNCHANGED recipes
       ELSE /\ recipes' = [recipes EXCEPT ![recipe_id] = RecipeFromForm(form)]
            /\ resp' = Response("update", 200, "html")
    /\ UNCHANGED <<transcripts, sessions>>

\* the transcripts after the DELETE of recipe recipe_id with the foreign key
\* left as it was
KeepLinks(recipe_id) == transcripts

\* the transcripts after the DELETE of recipe recipe_id: recipe_id is set to
\* NULL in every row that referenced it
SetNull(recipe_id) ==
    [t \in DOMAIN transcripts |->
        IF transcripts[t].recipe_id = recipe_id
        THEN [transcripts[t] EXCEPT !.recipe_id = NULL]
        ELSE transcripts[t]]

\* DELETE /recipes/{id}
delete_recipe(recipe_id) ==
    /\ IF recipe_id \notin DOMAIN recipes
       THEN /\ resp' = Response("delete", 404, "Recipe not found")
            /\ UNCHANGED <<recipes, transcripts>>
       ELSE /\ recipes' = Remove(recipes, recipe_id)
            /\ transcripts' = SetNull(recipe_id)
            /\ resp' = Response("delete", 200, "")
    /\ UNCHANGED sessions

\* GET /ingredients
ingredients_request ==
    /\ resp' = Response("ingredients", serve_ingredients_page(Rows(recipes)).code,
                        serve_ingredients_page(Rows(recipes)).error)
    /\ UNCHANGED <<transcripts, recipes, sessions>>

RecipeIds == 1..(MaxRecipes + 1)
TranscriptIds == 1..(MaxTranscripts + 1)

\* the requests, with every argument they may carry
CreateTranscript ==
    /\ \E full_text \in DictatedTexts : create_transcript_and_return_editor(full_text)
    /\ UNCHANGED <<qvars, aggvars, parsevars, relayvars>>

GenerateRecipeBegin ==
    /\ \E s \in 1..MaxSessions, id \in TranscriptIds, text \in Texts :
            GenerateBegin(s, id, text)
    /\ UNCHANGED <<qvars, aggvars, parsevars, relayvars>>

GenerateRecipeServiceFailed ==
    /\ \E s \in 1..MaxSessions : GenerateFinish(s, TRUE, <<>>)
    /\ UNCHANGED <<qvars, aggvars, parsevars, relayvars>>

GenerateRecipeServiceReplied ==
    /\ \E s \in 1..MaxSessions, raw \in LLMReplies : GenerateFinish(s, FALSE, raw)
    /\ UNCHANGED <<qvars, aggvars, parsevars, relayvars>>

CreateRecipe ==
    /\ \E form \in Forms : create_recipe_from_form(form)
    /\ UNCHANGED <<qvars, aggvars, parsevars, relayvars>>

UpdateRecipe ==
    /\ \E id \in RecipeIds, form \in Forms : update_recipe_and_return_cookbook(id, form)
    /\ UNCHANGED <<qvars, aggvars, parsevars, relayvars>>

DeleteRecipe ==
    /\ \E id \in RecipeIds : delete_recipe(id)
    /\ UNCHANGED <<qvars, aggvars, parsevars, relayvars>>

GetIngredients ==
    /\ ingredients_request
    /\ UNCHANGED <<qvars, aggvars, parsevars, relayvars>>

\* no request is modelled
DbIdle == DbInit

---------------------------------------------------------------------------
(* parse_llm_json_output applied to raw texts                              *)

\* the raw texts: every sequence of up to MaxRawLen tokens, the values being
\* an object, the empty object, a list and a string; and the fenced and the
\* bare text of an object, a text that is no JSON, and a text with two
\* fenced objects
RawStrings ==
    LET soup == JDict([recipe_name |-> JStr(S_Soup)])
        values == {soup, JDict(<<>>), JList(<<Item_flour>>), JStr(S_flour)}
        tokens == {Fence, Tag, Ws, Junk, Deep} \cup {Doc(v) : v \in values}
    IN  StringsUpTo(tokens, MaxRawLen)
        \cup { <<Fence, Tag, Ws, Doc(soup), Ws, Fence>>,
               <<Doc(soup)>>,
               <<Junk>>,
               <<Fence, Tag, Ws, Doc(soup), Ws, Fence, Junk, Fence, Doc(JDict(<<>>)), Fence>> }

ParseInit ==
    /\ raw_in \in RawStrings
    /\ parsed = JNull
    /\ parse_pc = "call"

ParseCall ==
    /\ parse_pc = "call"
    /\ parsed' = parse_llm_json_output(raw_in)
    /\ parse_pc' = "ret"
    /\ UNCHANGED raw_in

\* no call of parse_llm_json_output is modelled
ParseIdle == raw_in = <<>> /\ parsed = JNull /\ parse_pc = "idle"

---------------------------------------------------------------------------
(* websocket_streaming_endpoint: one relay session.  The handler iterates  *)
(* the responses of the streaming call while the speech client pulls the   *)
(* requests from audio_request_generator.  ws.receive() returns the raw    *)
(* message of the socket: a receive message with a bytes or a text key,    *)
(* or, once the client is gone, a disconnect message, after which calling  *)
(* it again is an error; a socket implementation may raise                 *)
(* WebSocketDisconnect instead, which is what the generator catches.       *)

\* the first request: the streaming configuration
ConfigRequest == [kind |-> "config", audio_content |-> ""]
AudioRequest(bytes) == [kind |-> "audio", audio_content |-> bytes]

BytesMessage(bytes) == [type |-> "websocket.receive", has_bytes |-> TRUE, data |-> bytes]
TextMessage == [type |-> "websocket.receive", has_bytes |-> FALSE, data |-> "text"]
DisconnectMessage == [type |-> "websocket.disconnect", has_bytes |-> FALSE, data |-> ""]

ClientMessages == {BytesMessage("chunk1"), BytesMessage("chunk2"), TextMessage}

\* the requests yielded for a message, with a text message forwarded as well
Forwarded_AnyMessage(message) ==
    IF message.type = "websocket.receive" THEN <<AudioRequest(message.data)>> ELSE <<>>

\* lines 136-137: the requests yielded for a received message
Forwarded(message) ==
    IF message.has_bytes THEN <<AudioRequest(message.data)>> ELSE <<>>

\* a response of the service: its results, each with alternatives and is_final
NoResults == [results |-> <<>>]
NoAlternatives == [results |-> <<[is_final |-> FALSE, alternatives |-> <<>>]>>]
Interim(text) ==
    [results |-> <<[is_final |-> FALSE, alternatives |-> <<[transcript |-> text]>>]>>]
Final(text) ==
    [results |-> <<[is_final |-> TRUE, alternatives |-> <<[transcript |-> text]>>]>>]

ServiceResponses == {NoResults, NoAlternatives, Interim("two"), Final("two eggs")}

\* lines 144-146: the messages sent to the client for a response
Sent(response) ==
    IF response.results = <<>> \/ response.results[1].alternatives = <<>> THEN <<>>
    ELSE <<[is_final |-> response.results[1].is_final,
            transcript |-> response.results[1].alternatives[1].transcript]>>

RelayInit ==
    /\ handler = "accept"
    /\ pending = ""
    /\ caught = FALSE
    /\ generator = "unstarted"
    /\ peer = "open"
    /\ client_state = "CONNECTING"
    /\ closed = FALSE
    /\ received = <<>>
    /\ to_service = <<>>
    /\ responses = <<>>
    /\ to_client = <<>>

\* lines 126-142: the socket is accepted and the streaming call is made
Accept ==
    /\ handler = "accept"
    /\ handler' = "streaming"
    /\ client_state' = "CONNECTED"
    /\ UNCHANGED <<pending, caught, generator, peer, closed, received, to_service, responses,
                   to_client>>
    /\ UNCHANGED <<qvars, aggvars, parsevars, dbvars>>

\* the client closes its end
ClientDisconnects ==
    /\ peer = "open"
    /\ handler # "accept"
    /\ peer' = "gone"
    /\ UNCHANGED <<handler, pending, caught, generator, client_state, closed, received,
                   to_service, responses, to_client>>
    /\ UNCHANGED <<qvars, aggvars, parsevars, dbvars>>

\* lines 130-132: the speech client asks for the first request
GeneratorStarts ==
    /\ handler = "streaming"
    /\ generator = "unstarted"
    /\ generator' = "running"
    /\ to_service' = <<ConfigRequest>>
    /\ UNCHANGED <<handler, pending, caught, peer, client_state, closed, received, responses,
                   to_client>>
    /\ UNCHANGED <<qvars, aggvars, parsevars, dbvars>>

\* lines 135-137: a message of the client is received, and forwarded if it
\* holds bytes
GeneratorReceives ==
    /\ handler = "streaming"
    /\ generator = "running"
    /\ client_state = "CONNECTED"
    /\ peer = "open"
    /\ Len(received) < MaxMessages
    /\ \E message \in ClientMessages :
        /\ received' = Append(received, message)
        /\ to_service' = to_service \o Forwarded(message)
    /\ UNCHANGED <<handler, pending, caught, generator, peer, client_state, closed, responses,
                   to_client>>
    /\ UNCHANGED <<qvars, aggvars, parsevars, dbvars>>

\* line 135 with the client gone: ws.receive() returns the disconnect
\* message, which holds no bytes, and the loop goes on
GeneratorReceivesDisconnect ==
    /\ handler = "streaming"
    /\ generator = "running"
    /\ client_state = "CONNECTED"
    /\ peer = "gone"
    /\ received' = Append(received, DisconnectMessage)
    /\ to_service' = to_service \o Forwarded(DisconnectMessage)
    /\ client_state' = "DISCONNECTED"
    /\ UNCHANGED <<handler, pending, caught, generator, peer, closed, responses, to_client>>
    /\ UNCHANGED <<qvars, aggvars, parsevars, dbvars>>

\* lines 138-139: ws.receive() raises WebSocketDisconnect and the generator
\* returns
GeneratorCatchesDisconnect ==
    /\ handler = "streaming"
    /\ generator = "running"
    /\ client_state = "CONNECTED"
    /\ peer = "gone"
    /\ generator' = "returned"
    /\ client_state' = "DISCONNECTED"
    /\ UNCHANGED <<handler, pending, caught, peer, closed, received, to_service, responses,
                   to_client>>
    /\ UNCHANGED <<qvars, aggvars, parsevars, dbvars>>

\* line 135 after the disconnect message: ws.receive() raises an error that
\* is no WebSocketDisconnect, and it leaves the generator
GeneratorRaises ==
    /\ handler = "streaming"
    /\ generator = "running"
    /\ client_state = "DISCONNECTED"
    /\ generator' = "raised"
    /\ UNCHANGED <<handler, pending, caught, peer, client_state, closed, received, to_service,
                   responses, to_client>>
    /\ UNCHANGED <<qvars, aggvars, parsevars, dbvars>>

\* lines 143-146: the loop takes a response and sends its first result to
\* the client; send_json raises when the client is gone (line 147 catches it)
ServiceResponds ==
    /\ handler = "streaming"
    /\ generator # "unstarted"
    /\ Len(responses) < MaxResponses
    /\ \E response \in ServiceResponses :
        /\ responses' = Append(responses, response)
        /\ IF Sent(response) = <<>>
           THEN UNCHANGED <<handler, caught, to_client>>
           ELSE IF peer = "open"
           THEN /\ to_client' = to_client \o Sent(response)
                /\ UNCHANGED <<handler, caught>>
           ELSE /\ handler' = "finally"
                /\ caught' = TRUE
                /\ UNCHANGED to_client
    /\ UNCHANGED <<pending, generator, peer, client_state, closed, received, to_service>>
    /\ UNCHANGED <<qvars, aggvars, parsevars, dbvars>>

\* lines 142-148: the streaming call or the iteration raises an error of the
\* service, which is caught and printed
ServiceFails ==
    /\ handler = "streaming"
    /\ handler' = "finally"
    /\ caught' = TRUE
    /\ UNCHANGED <<pending, generator, peer, client_state, closed, received, to_service,
                   responses, to_client>>
    /\ UNCHANGED <<qvars, aggvars, parsevars, dbvars>>

\* line 143: the requests ended, the service answered, the iteration ends
ServiceEnds ==
    /\ handler = "streaming"
    /\ generator = "returned"
    /\ handler' = "finally"
    /\ UNCHANGED caught
    /\ UNCHANGED <<pending, generator, peer, client_state, closed, received, to_service,
                   responses, to_client>>
    /\ UNCHANGED <<qvars, aggvars, parsevars, dbvars>>

\* line 143 after the generator raised: the call is cancelled and the
\* iteration raises, an Exception (caught at line 147) or the
\* asyncio.CancelledError of a cancelled call, which is a BaseException and
\* passes the except clause
CallBreaks ==
    /\ handler = "streaming"
    /\ generator = "raised"
    /\ handler' = "finally"
    /\ \E e \in {"Exception", "CancelledError"} :
        /\ pending' = IF e = "Exception" THEN "" ELSE e
        /\ caught' = (e = "Exception")
    /\ UNCHANGED <<generator, peer, client_state, closed, received, to_service,
                   responses, to_client>>
    /\ UNCHANGED <<qvars, aggvars, parsevars, dbvars>>

\* lines 149-151: the socket is closed if the client is still connected,
\* then the handler returns, or raises what the except clause let pass
Finally ==
    /\ handler = "finally"
    /\ UNCHANGED caught
    /\ closed' = (client_state = "CONNECTED")
    /\ handler' = IF pending = "" THEN "returned" ELSE "raised"
    /\ UNCHANGED <<pending, caught, generator, peer, client_state, received, to_service,
                   responses, to_client>>
    /\ UNCHANGED <<qvars, aggvars, parsevars, dbvars>>

\* no relay session is modelled
RelayIdle == RelayInit

---------------------------------------------------------------------------
(* Specifications                                                          *)

vars == <<qvars, aggvars, parsevars, dbvars, relayvars>>

\* parse_quantity applied to every string of QtyInputs
QtyNext == QtyCall /\ UNCHANGED <<aggvars, parsevars, dbvars, relayvars>>
InitQty == QtyInit /\ AggIdle /\ ParseIdle /\ DbIdle /\ RelayIdle
SpecQty == InitQty /\ [][QtyNext]_vars

\* the aggregation applied to every recipe list of RecipeSeqs
AggNext == AggCall /\ UNCHANGED <<qvars, parsevars, dbvars, relayvars>>
InitAgg == AggInit /\ QtyIdle /\ ParseIdle /\ DbIdle /\ RelayIdle
SpecAgg == InitAgg /\ [][AggNext]_vars

\* parse_llm_json_output applied to every text of RawStrings
ParseNext == ParseCall /\ UNCHANGED <<qvars, aggvars, dbvars, relayvars>>
InitParse == ParseInit /\ QtyIdle /\ AggIdle /\ DbIdle /\ RelayIdle
SpecParse == InitParse /\ [][ParseNext]_vars

\* the request handlers, in any order, over one database
Init == DbInit /\ QtyIdle /\ AggIdle /\ ParseIdle /\ RelayIdle
Next ==
    \/ CreateTranscript
    \/ GenerateRecipeBegin
    \/ GenerateRecipeServiceFailed
    \/ GenerateRecipeServiceReplied
    \/ CreateRecipe
    \/ UpdateRecipe
    \/ DeleteRecipe
    \/ GetIngredients
Spec == Init /\ [][Next]_vars

\* one relay session, with its client and the speech service
InitRelay == RelayInit /\ QtyIdle /\ AggIdle /\ ParseIdle /\ DbIdle
NextRelay ==
    \/ Accept
    \/ ClientDisconnects
    \/ GeneratorStarts
    \/ GeneratorReceives
    \/ GeneratorReceivesDisconnect
    \/ GeneratorCatchesDisconnect
    \/ GeneratorRaises
    \/ ServiceResponds
    \/ ServiceFails
    \/ ServiceEnds
    \/ CallBreaks
    \/ Finally
SpecRelay == InitRelay /\ [][NextRelay]_vars

---------------------------------------------------------------------------
(* Claims                                                                  *)

\* the quantity the rules of the quantity parser give for the string s:
\* (a) the decimal number s denotes, else (b) numerator/denominator when s
\* holds exactly one "/" and both sides are decimals with a nonzero
\* denominator, else (c) unparseable
SlashCount(s) == Cardinality({i \in 1..Len(s) : s[i] = "/"})
IsDecimal(s) == ~IsRaise(float_(s))
RuleQuantity(s) ==
    IF IsDecimal(s) THEN float_(s)
    ELSE IF SlashCount(s) = 1
    THEN LET i == CHOOSE j \in 1..Len(s) : s[j] = "/"
             num == SubSeq(s, 1, i - 1)
             den == SubSeq(s, i + 1, Len(s))
         IN  IF IsDecimal(num) /\ IsDecimal(den) /\ float_(den).n # 0
             THEN Float(float_(num).n * float_(den).d, float_(num).d * float_(den).n)
             ELSE PyNone
    ELSE PyNone

RECURSIVE LineItems(_)
LineItems(rs) == IF rs = <<>> THEN <<>> ELSE Head(rs).items.l \o LineItems(Tail(rs))

\* a name or quantity that is missing: no key, null, empty, or a zero number
\* (the values the aggregation treats as absent)
MissingValue(v) ==
    \/ v = JNull
    \/ v = JStr(<<>>)
    \/ v = JInt(0)
    \/ (v.t = "float" /\ v.n = 0)

\* the line item adds to a bucket
Counted(item) ==
    /\ ~MissingValue(Get(item, "itemName"))
    /\ ~MissingValue(Get(item, "quantity"))
    /\ RuleQuantity(str_(Get(item, "quantity"))) # PyNone

BucketName(item) == lower(strip(Get(item, "itemName").s))
BucketUnit(item) ==
    IF Get(item, "unit") \in {JNull, JStr(<<>>)} THEN S_count
    ELSE lower(strip(Get(item, "unit").s))

\* the sum of the quantities of the counted items of the bucket (name, unit)
RECURSIVE BucketTotal(_, _, _)
BucketTotal(items, name, unit) ==
    IF items = <<>> THEN Float(0, 1)
    ELSE LET rest == BucketTotal(Tail(items), name, unit)
             it == Head(items)
         IN  IF Counted(it) /\ BucketName(it) = name /\ BucketUnit(it) = unit
             THEN FloatAdd(RuleQuantity(str_(Get(it, "quantity"))), rest)
             ELSE rest

CountedItems(rs) == {LineItems(rs)[i] : i \in {j \in 1..Len(LineItems(rs)) : Counted(LineItems(rs)[j])}}

TwoFlours ==
    << [items |-> JList(<<JDict([itemName |-> JStr(S_Flour), quantity |-> JStr(<<"1">>),
                                 unit |-> JStr(S_cup)])>>)],
       [items |-> JList(<<JDict([itemName |-> JStr(S_flour), quantity |-> JStr(<<"2">>),
                                 unit |-> JStr(S_cup)])>>)] >>

\* C9: over recipes whose items are lists of objects (str names and units,
\* str or numeric quantities, any of them possibly missing), the aggregate is
\* the reference: the names listed are exactly the trimmed, lowercased names
\* of the items that have a name and a quantity (missing, empty and zero
\* count as absent) and a parseable quantity; they are listed in alphabetical
\* order; the units under a name are exactly those items' trimmed, lowercased
\* units ("count" for a missing or empty unit), each with the sum of the
\* parsed quantities.  "Flour" 1 cup and "flour" 2 cup give flour -> cup 3.0.
C9_AggregationIsReference ==
    agg_pc = "ret" =>
        LET out == agg_out.ingredients
            counted == CountedItems(agg_in)
        IN  /\ agg_out.code = 200
            /\ {out[i][1] : i \in 1..Len(out)} = {BucketName(it) : it \in counted}
            /\ \A i \in 1..Len(out) : \A j \in 1..Len(out) :
                    i < j => StrLess(out[i][1], out[j][1])
            /\ \A i \in 1..Len(out) :
                    /\ DOMAIN out[i][2] =
                           {BucketUnit(it) : it \in {c \in counted : BucketName(c) = out[i][1]}}
                    /\ \A u \in DOMAIN out[i][2] :
                           out[i][2][u] = BucketTotal(LineItems(agg_in), out[i][1], u)
            /\ (agg_in = TwoFlours => out = << <<S_flour, (S_cup :> Float(3, 1))>> >>)

\* the two flours were summed into one bucket
C9_Witness ==
    /\ agg_pc = "ret"
    /\ agg_in = TwoFlours
    /\ agg_out.ingredients = << <<S_flour, (S_cup :> Float(3, 1))>> >>

\* the step is a generate-recipe request of session s returning 200
GenerateSucceeds(s) ==
    /\ sessions[s].state = "llm"
    /\ sessions'[s].state = "idle"
    /\ resp'.op = "generate"
    /\ resp'.code = 200

\* C1: when generate-recipe succeeds, the committed state holds exactly one
\* Recipe that did not exist before (every other Recipe as it was), and the
\* Transcript is processed, linked to that Recipe, and holds the submitted
\* text, whatever its status and link were.
C1_GenerateCommits ==
    [][\A s \in 1..MaxSessions :
        GenerateSucceeds(s) =>
            \E new \in DOMAIN recipes' \ DOMAIN recipes :
                /\ DOMAIN recipes' = DOMAIN recipes \cup {new}
                /\ \A r \in DOMAIN recipes : recipes'[r] = recipes[r]
                /\ transcripts'[sessions[s].tid].status = "processed"
                /\ transcripts'[sessions[s].tid].recipe_id = new
                /\ transcripts'[sessions[s].tid].full_text = sessions[s].text]_vars

\* generation succeeded with a corrected text: the transcript is processed,
\* holds the text and is linked to a stored recipe
C1_Witness ==
    /\ resp = Response("generate", 200, "html")
    /\ \E t \in DOMAIN transcripts :
        /\ transcripts[t].full_text = "corrected"
        /\ transcripts[t].status = "processed"
        /\ transcripts[t].recipe_id \in DOMAIN recipes

ErrorResponses ==
    { Response("generate", 404, "Transcript not found"),
      Response("generate", 500, "AI service failed to respond."),
      Response("generate", 500, "AI returned an invalid recipe structure."),
      Response("generate", 500, "Internal Server Error"),
      Response("update", 404, "Recipe not found"),
      Response("delete", 404, "Recipe not found") }

\* C2: a step after which the last response is an error of generate-recipe
\* (404, 500), update (404) or delete (404) changes no Recipe and no
\* Transcript: the text set during the failed generation is not stored.
\* Generate-recipe for a Transcript id that is not stored, and update and
\* delete for a Recipe id that is not stored, answer 404.
C2_ErrorsChangeNothing ==
    [][/\ resp' \in ErrorResponses => (transcripts' = transcripts /\ recipes' = recipes)
       /\ \A id \in TranscriptIds \ DOMAIN transcripts :
            \A s \in 1..MaxSessions, text \in Texts :
                GenerateBegin(s, id, text) =>
                    resp' = Response("generate", 404, "Transcript not found")
       /\ \A id \in RecipeIds \ DOMAIN recipes :
            /\ delete_recipe(id) => resp' = Response("delete", 404, "Recipe not found")
            /\ \A form \in Forms :
                update_recipe_and_return_cookbook(id, form) =>
                    resp' = Response("update", 404, "Recipe not found")]_vars

\* a generation failed on an unparseable reply and the transcript is still
\* pending with the text it was created with
C2_Witness ==
    /\ resp = Response("generate", 500, "AI returned an invalid recipe structure.")
    /\ \E t \in DOMAIN transcripts : transcripts[t] = Transcript("dictated", "pending", NULL)

\* C3: a successful DELETE removes exactly one Recipe, returns 200 with an
\* empty body, keeps every Transcript, sets to NULL the link of those that
\* referenced the Recipe (text and status kept) and changes nothing else.
C3_DeleteNullsLinks ==
    [][\A id \in DOMAIN recipes :
        delete_recipe(id) =>
            /\ resp' = Response("delete", 200, "")
            /\ DOMAIN recipes' = DOMAIN recipes \ {id}
            /\ \A r \in DOMAIN recipes' : recipes'[r] = recipes[r]
            /\ DOMAIN transcripts' = DOMAIN transcripts
            /\ \A t \in DOMAIN transcripts :
                transcripts'[t] =
                    IF transcripts[t].recipe_id = id
                    THEN Transcript(transcripts[t].full_text, transcripts[t].status, NULL)
                    ELSE transcripts[t]]_vars

\* a delete left a processed transcript without its recipe
C3_Witness ==
    /\ resp = Response("delete", 200, "")
    /\ \E t \in DOMAIN transcripts :
        transcripts[t].status = "processed" /\ transcripts[t].recipe_id = NULL

\* the items value is a list of objects that each carry an itemName
WellFormedItems(items) ==
    /\ items.t = "list"
    /\ \A i \in 1..Len(items.l) :
        items.l[i].t = "dict" /\ "itemName" \in DOMAIN items.l[i].o

\* C4: in every reachable state every stored Recipe's items is a list of
\* objects that each carry an itemName.
C4_ItemsAlwaysWellFormed ==
    \A r \in DOMAIN recipes : WellFormedItems(recipes[r].items)

\* C5: in every reachable state each Recipe is referenced by at most one
\* Transcript and every non-null link refers to a stored Recipe.
C5_LinksAreSound ==
    /\ \A r \in DOMAIN recipes :
        Cardinality({t \in DOMAIN transcripts : transcripts[t].recipe_id = r}) <= 1
    /\ \A t \in DOMAIN transcripts :
        transcripts[t].recipe_id # NULL => transcripts[t].recipe_id \in DOMAIN recipes

\* a generation committed while another one for the same transcript is in
\* flight: the transcript is linked to recipe 2 while recipe 1 is stored and
\* no transcript refers to it
C5_Witness ==
    /\ resp = Response("generate", 200, "html")
    /\ DOMAIN recipes = {1, 2}
    /\ \E t \in DOMAIN transcripts :
        /\ transcripts[t].recipe_id = 2
        /\ \E s \in 1..MaxSessions : sessions[s].state = "llm" /\ sessions[s].tid = t
    /\ \A t \in DOMAIN transcripts : transcripts[t].recipe_id # 1

\* C10: GET /ingredients never fails, whatever the stored Recipes are.
C10_IngredientsNeverFails ==
    resp.op = "ingredients" => resp.code = 200


---------------------------------------------------------------------------
(* The transcription relay                                                 *)

\* the binary chunks among the messages received, in the order received
ChunksReceived ==
    LET binary == SelectSeq(received, LAMBDA message : message.has_bytes)
    IN  [i \in 1..Len(binary) |-> binary[i].data]

\* the responses taken from the service that carry a transcript
TranscriptResponses ==
    SelectSeq(responses, LAMBDA response :
        /\ response.results # <<>>
        /\ response.results[1].alternatives # <<>>)

\* the {is_final, transcript} messages of the responses that carry a transcript
TranscriptMessages ==
    [i \in 1..Len(TranscriptResponses) |->
        [is_final |-> TranscriptResponses[i].results[1].is_final,
         transcript |-> TranscriptResponses[i].results[1].alternatives[1].transcript]]

\* C6: the first request sent to the speech service is the one
\* configuration request, the requests after it are the binary chunks
\* received from the client, one audio request a chunk, in the order
\* received, and nothing is sent for a message that is not binary; the
\* messages sent to the client are the {is_final, transcript} messages of the
\* responses that carry a transcript, in the order the service produced them
\* (all of them while the session is streaming; when a send failed, all but
\* the response whose send failed).
C6_RelayInOrder ==
    /\ generator = "unstarted" => to_service = <<>>
    /\ generator # "unstarted" =>
        /\ Len(to_service) = 1 + Len(ChunksReceived)
        /\ to_service[1] = ConfigRequest
        /\ \A i \in 1..Len(ChunksReceived) :
            to_service[i + 1] = [kind |-> "audio", audio_content |-> ChunksReceived[i]]
    /\ Len(to_client) <= Len(TranscriptMessages)
    /\ \A i \in 1..Len(to_client) : to_client[i] = TranscriptMessages[i]
    /\ Len(to_client) >= Len(TranscriptMessages) - 1
    /\ handler = "streaming" => to_client = TranscriptMessages

\* two chunks with a text message between them were received and forwarded,
\* and two transcripts with an empty response between them were sent on
C6_Witness ==
    /\ received = <<BytesMessage("chunk2"), TextMessage, BytesMessage("chunk1")>>
    /\ to_service = <<ConfigRequest, AudioRequest("chunk2"), AudioRequest("chunk1")>>
    /\ responses = <<Interim("two"), NoResults, Final("two eggs")>>
    /\ to_client = <<[is_final |-> FALSE, transcript |-> "two"],
                     [is_final |-> TRUE, transcript |-> "two eggs"]>>

\* C7: no error leaves the request generator or the handler of a session
\* uncaught, and when the handler has returned the socket was closed unless
\* the client had disconnected.
C7_SessionEndsCleanly ==
    /\ generator # "raised"
    /\ handler # "raised"
    /\ handler = "returned" => (closed \/ client_state = "DISCONNECTED")

---------------------------------------------------------------------------
(* The parser of the structuring service's output                          *)

\* the objects of the raw text that a code fence, an optional tag json and
\* whitespace precede and whitespace and a code fence follow
FencedObjects ==
    {q \in 1..Len(raw_in) :
        /\ IsObjectText(raw_in[q])
        /\ ClosesAfter(raw_in, q)
        /\ \E i \in 1..(q - 1) : GroupStart(raw_in, i) = q}

\* the whole raw text is one JSON text, whitespace around it allowed
WholeTextParses ==
    \E a \in 1..Len(raw_in) :
        /\ raw_in[a].k = "value"
        /\ \A b \in 1..Len(raw_in) : b # a => raw_in[b].k = "ws"

\* the value of the whole raw text when it is one JSON text
WholeTextValue ==
    raw_in[CHOOSE a \in 1..Len(raw_in) : raw_in[a].k = "value"].v

\* C11: parse_llm_json_output returns an object or None and never raises;
\* for a text with a fenced object it returns the parse of the interior of
\* the (first) fenced block; for any other text it returns the parse of the
\* whole text, and None when that does not parse.  So the fenced and the
\* bare text of an object give the same object.
C11_ParserContract ==
    parse_pc = "ret" =>
        /\ parsed.t \in {"dict", "null"}
        /\ FencedObjects # {} => parsed = raw_in[SetMin(FencedObjects)].v
        /\ (FencedObjects = {} /\ WholeTextParses) => parsed = WholeTextValue
        /\ (FencedObjects = {} /\ ~WholeTextParses) => parsed = JNull

---------------------------------------------------------------------------
(* The Recipe built from the structuring service's object                  *)

\* the field of the parsed object as given, the default when it is absent
GivenOr(recipe_data, key, default) ==
    IF key \in DOMAIN recipe_data.o THEN recipe_data.o[key] ELSE default

\* the Recipe with every field present stored as given and every absent
\* field replaced by its default
RecipeWithDefaults(recipe_data) ==
    Recipe(GivenOr(recipe_data, "recipe_name", JStr(S_Untitled)),
           GivenOr(recipe_data, "provenance", JNull),
           GivenOr(recipe_data, "items", JList(<<>>)),
           GivenOr(recipe_data, "chef_notes", JList(<<>>)))

\* C12: when the reply of the structuring service parses to an object, the
\* generate-recipe step answers 200 and stores one new Recipe, built from the
\* object with recipe_name "Untitled Recipe", provenance null, items [] and
\* chef_notes [] for the fields that are absent (the object with no field
\* included) and the fields that are present as given.
C12_RecipeFromObject ==
    [][\A s \in 1..MaxSessions, raw \in LLMReplies :
        (/\ GenerateFinish(s, FALSE, raw)
         /\ parse_llm_json_output(raw).t = "dict") =>
            /\ resp' = Response("generate", 200, "html")
            /\ \E new \in DOMAIN recipes' \ DOMAIN recipes :
                /\ DOMAIN recipes' = DOMAIN recipes \cup {new}
                /\ recipes'[new] = RecipeWithDefaults(parse_llm_json_output(raw))]_vars

====
